---- MODULE Spec2Model ----
(***************************************************************************)
(* Model of the konsum-leipzig scrapers:                                   *)
(*   - PageDownloader.download_page      (scrapers/page_downloader.py)     *)
(*   - CategoryScraper.scrape_categories (scrapers/category_scraper.py)    *)
(*   - ProductScraper and its main()     (scrapers/product_scraper.py)     *)
(*   - its parsers _extract_price_info and _extract_nutrition_info         *)
(*   - CategorySelector                  (utils/category_selector.py)      *)
(*   - KonsumSiteScraper.crawl           (konsum_crawler.py)               *)
(* URLs are records [host, path]; a path is the sequence of the pieces     *)
(* between the slashes, each piece a sequence of text chunks, so that a    *)
(* trailing slash shows as a final empty piece (as str.split('/') gives).  *)
(***************************************************************************)
EXTENDS Integers, Sequences, FiniteSets, TLC

VARIABLES
  visited_urls,        \* CategoryScraper.visited_urls
  category_map,        \* CategoryScraper.category_map : breadcrumb path -> URL
  wstack,              \* call stack of the recursive scrape_categories
  wpc,                 \* position of the walker's entry call
  skipped,             \* URLs of links not followed because already visited
  calls,               \* every download_page call made so far, in order
  lastCall,            \* what the latest download_page call did
  sleeps,              \* per time.sleep so far, the number of calls before it
  prefs_file,          \* config/category_preferences.json
  categories_file,     \* config/categories_with_urls.json (walker output)
  selected_categories, \* ProductScraper.selected_categories
  products_cache,      \* ProductScraper.products_cache : URL -> Product
  ppc,                 \* position of product_scraper.main
  categories,          \* local 'categories' of scrape_all_selected_categories
  catIdx,              \* index of the category the for loop is at
  all_products,        \* local 'all_products' of scrape_all_selected_categories
  product_urls,        \* local 'product_urls' of scrape_category
  urlIdx,              \* index of the URL the product loop is at
  products,            \* local 'products' of scrape_category
  proc,                \* what each loop iteration did, in order
  listings,            \* the category and product URLs of each finished call
  returned,            \* the return value of each finished scrape_category
  saved,               \* the argument of save_products, once called
  input,               \* the argument of the parsing function under study
  output,              \* what it returned, once called
  sel_file,            \* the 'categories' list of config/categories.json
  sel_categories,      \* CategorySelector.categories
  sel_selected,        \* CategorySelector.selected_categories
  sel_pc,              \* position of CategorySelector.select_categories
  sel_input,           \* the latest answers the operator gave
  site_visited_urls,   \* KonsumSiteScraper.visited_urls
  site_product_urls,   \* KonsumSiteScraper.product_urls
  site_stack,          \* call stack of the recursive crawl
  site_pc,             \* position of the program around the entry call
  site_call,           \* the URL and depth the entry call runs with
  site_links,          \* the valid links found on the pages got so far
  site_errors          \* whether a request has raised

vars == <<visited_urls, category_map, wstack, wpc, skipped, calls, lastCall,
          sleeps, prefs_file,
          categories_file, selected_categories, products_cache, ppc,
          categories, catIdx, all_products, product_urls, urlIdx, products,
          proc, listings, returned, saved, input, output, sel_file,
          sel_categories, sel_selected, sel_pc, sel_input,
          site_visited_urls, site_product_urls, site_stack, site_pc,
          site_call, site_links, site_errors>>

walkVars == <<visited_urls, category_map, wstack, wpc, skipped>>

parseVars == <<input, output>>

selectorVars == <<sel_file, sel_categories, sel_selected, sel_pc, sel_input>>

siteVars == <<site_visited_urls, site_product_urls, site_stack, site_pc,
              site_call, site_links, site_errors>>

crawlVars == <<prefs_file, categories_file, selected_categories,
               products_cache, ppc, categories, catIdx, all_products,
               product_urls, urlIdx, products, proc, listings, returned,
               saved>>

----------------------------------------------------------------------------
(* Bounds of the model *)

MaxLinks == 2

MaxListing == 2

NetHorizon == 3

MaxText == 5

MaxWords == 2

MaxTokens == 2

MaxInputs == 2

----------------------------------------------------------------------------
(* URLs, hrefs and urljoin *)

\* self.base_url = 'https://www.konsum-leipzig.de' (the scheme is the same
\* for every URL and left out)
base_url == "www.konsum-leipzig.de"

SegOB == <<"online-bestellen">>

SegAP == <<"alle-produkte">>

EmptySeg == <<>>

Url(host, path) == [host |-> host, path |-> path]

\* self.start_url = base_url + '/online-bestellen/alle-produkte/'
start_url == Url(base_url, <<SegOB, SegAP, EmptySeg>>)

\* urljoin(self.base_url, href): an href with a host is kept, a rooted
\* relative href is put under the base host, '' gives the base URL itself.
urljoin(href) ==
  IF href.host = "" THEN Url(base_url, href.path) ELSE href

\* '/online-bestellen/alle-produkte/' in href
HasTaxonomyPrefix(href) ==
  \E i \in 1..(Len(href.path) - 2) :
     href.path[i] = SegOB /\ href.path[i + 1] = SegAP

Last(s) == s[Len(s)]

SeqsUpTo(S, n) == UNION {[1..k -> S] : k \in 0..n}

----------------------------------------------------------------------------
(* PageDownloader.download_page *)

\* What one requests.get followed by raise_for_status comes to: a body, or a
\* RequestException (Timeout, ConnectionError, HTTPError of a non-success
\* status), all of which the one except clause treats alike.
NetOutcomes == {"ok", "request_exception"}

NetResponses == [1..NetHorizon -> NetOutcomes]

AllFail(resp) == \A i \in DOMAIN resp : resp[i] # "ok"

\* A faulty variant: the request is repeated until it succeeds or the
\* horizon ends.
download_page_retrying(resp) ==
  LET oks == {i \in DOMAIN resp : resp[i] = "ok"}
      n   == IF oks = {} THEN Len(resp)
             ELSE CHOOSE i \in oks : \A j \in oks : i <= j
  IN [attempts |-> n, ok |-> oks # {}, raised |-> FALSE]

\* One requests.get, raise_for_status; every RequestException is caught and
\* turned into None.  resp[i] is what the network would answer to the i-th
\* request for this call.
download_page(resp) ==
  [attempts |-> 1, ok |-> resp[1] = "ok", raised |-> FALSE]

\* The entry of one download_page call in 'calls': the URL asked for, the
\* call site and the category the caller was working on.
CallRec(url, kind, for) == [url |-> url, kind |-> kind, for |-> for]

\* What one download_page call did: the requests it made, whether the network
\* would have failed every request, and how the call ended.
LastCallRec(url, resp, r) ==
  [made |-> TRUE, url |-> url, attempts |-> r.attempts,
   allFail |-> AllFail(resp), none |-> ~r.ok, raised |-> r.raised]

NoCall ==
  [made |-> FALSE, url |-> Url("", <<>>), attempts |-> 0, allFail |-> FALSE,
   none |-> FALSE, raised |-> FALSE]

\* KonsumSiteScraper.crawl has not been called
NoSiteCall == [url |-> Url("", <<>>), depth |-> 0]

----------------------------------------------------------------------------
(* Text, as the parsing functions see it: a sequence of characters *)

NoText == <<>>

\* no answer given yet
NoInput == [n |-> 0, department |-> <<>>, sub |-> "none", before |-> {}]

\* the value of 'output' before the function was called
NotCalled == <<>>

\* str.find(c): the 0-based index of the first c, or -1
Find(s, c) ==
  IF \E i \in DOMAIN s : s[i] = c
  THEN (CHOOSE i \in DOMAIN s : s[i] = c /\ \A j \in 1..(i - 1) : s[j] # c) - 1
  ELSE -1

\* s[a:b] for a >= 0: a negative b counts from the end, and a bound past the
\* end or a start past the stop gives what is there, never an IndexError
Slice(s, a, b) ==
  LET stop == IF b < 0 THEN (IF Len(s) + b < 0 THEN 0 ELSE Len(s) + b)
              ELSE IF b > Len(s) THEN Len(s) ELSE b
  IN SubSeq(s, a + 1, stop)

RECURSIVE LStrip(_)
LStrip(s) == IF s # <<>> /\ Head(s) = " " THEN LStrip(Tail(s)) ELSE s

RECURSIVE RStrip(_)
RStrip(s) ==
  IF s # <<>> /\ s[Len(s)] = " " THEN RStrip(SubSeq(s, 1, Len(s) - 1)) ELSE s

\* str.strip()
Strip(s) == LStrip(RStrip(s))

\* str.replace(a, b) for single characters
Replace(s, a, b) == [i \in DOMAIN s |-> IF s[i] = a THEN b ELSE s[i]]

\* str.replace(a, '')
Remove(s, a) == SelectSeq(s, LAMBDA c : c # a)

Digits == {"3"}

\* float(s): surrounding blanks are ignored; of the texts the model can
\* form, those with digits and at most one point convert, the rest raise
\* ValueError.  The value is kept as its literal.
Float(s) ==
  LET t == Strip(s)
      points == {i \in DOMAIN t : t[i] = "."}
  IN IF /\ \A i \in DOMAIN t : t[i] \in Digits \cup {"."}
        /\ \E i \in DOMAIN t : t[i] \in Digits
        /\ Cardinality(points) <= 1
     THEN [raised |-> FALSE, value |-> [null |-> FALSE, lit |-> t]]
     ELSE [raised |-> TRUE, value |-> [null |-> TRUE, lit |-> <<>>]]

None == [null |-> TRUE, lit |-> <<>>]

----------------------------------------------------------------------------
(* Category paths *)

LAlle == <<"Alle Produkte">>

LObst == <<"O", "bst">>

LKaese == <<"K", "ä", "se">>

PathObst == <<LAlle, LObst>>

PathKaese == <<LAlle, LKaese>>

CategoryPaths == {PathObst, PathKaese}

\* breadcrumb with no link after the first one: extract_breadcrumb_path
\* returns None
NoPath == <<>>

----------------------------------------------------------------------------
(* CategoryScraper: the taxonomy walker *)

HrefRoot == Url("", <<SegOB, SegAP, EmptySeg>>)

HrefObstRel == Url("", <<SegOB, SegAP, <<"o", "bst">>, EmptySeg>>)

HrefObstAbs == Url(base_url, <<SegOB, SegAP, <<"o", "bst">>, EmptySeg>>)

HrefService == Url("", <<<<"service">>, <<"kontakt">>>>)

\* a link to another site whose path has the same two pieces
HrefExt == Url("www.example.org", <<SegOB, SegAP, EmptySeg>>)

\* The hrefs a sidebar link can have.
SidebarHrefs == {HrefRoot, HrefObstRel, HrefObstAbs, HrefExt, HrefService}

\* A downloaded page as the walker reads it: the text is empty or not, the
\* breadcrumb path (NoPath if none) and the number of sidebar links (no
\* sidebar reads as no links).  The href of each link is drawn from
\* SidebarHrefs when the loop comes to it.
WalkPages ==
  [empty : {FALSE}, breadcrumb : CategoryPaths \cup {NoPath},
   nlinks : 0..MaxLinks]
  \cup {[empty |-> TRUE, breadcrumb |-> NoPath, nlinks |-> 0]}

\* One activation of scrape_categories: its argument, its position, its
\* local category_path, len(subcategory_links) and the number of links the
\* loop has been through.
Frame(url) ==
  [url |-> url, pc |-> "enter", category_path |-> NoPath, nlinks |-> 0,
   pos |-> 0]

Top == wstack[Len(wstack)]

Pop == SubSeq(wstack, 1, Len(wstack) - 1)

ReplaceTop(f) == [wstack EXCEPT ![Len(wstack)] = f]

\* A faulty variant: the URL is not recorded.
MarkVisitedForgets(vis, url) == vis

\* self.visited_urls.add(url)
MarkVisited(vis, url) == vis \cup {url}

\* A faulty variant: a URL whose download failed is taken out again.
AfterFailedDownloadForgets(vis, url) == vis \ {url}

\* 'if not content: return' leaves visited_urls as it is
AfterFailedDownload(vis, url) == vis

\* A faulty variant: an existing entry is kept.
StoreCategoryFirstWins(map, path, url) ==
  IF path = NoPath \/ path \in DOMAIN map THEN map
  ELSE [p \in DOMAIN map \cup {path} |-> IF p = path THEN url ELSE map[p]]

\* if category_path: self.category_map[category_path] = url
StoreCategory(map, path, url) ==
  IF path = NoPath THEN map
  ELSE [p \in DOMAIN map \cup {path} |-> IF p = path THEN url ELSE map[p]]

\* A faulty variant: the loop does not move on to the next link.
RestLinksStuck(pos) == pos

\* the for loop over subcategory_links moves to the next link
RestLinks(pos) == pos + 1

Return ==
  /\ wstack' = Pop
  /\ wpc' = IF Len(wstack) = 1 THEN "done" ELSE wpc

\* main(): scraper.scrape_categories() with url = None
WalkStart ==
  /\ wpc = "init"
  /\ wpc' = "running"
  /\ wstack' = <<Frame(start_url)>>
  /\ UNCHANGED <<visited_urls, category_map, skipped, calls, lastCall, sleeps>>
  /\ UNCHANGED <<crawlVars, parseVars, selectorVars, siteVars>>

\* scrape_categories(url): the visited check and the marking
WalkEnter ==
  /\ wpc = "running" /\ wstack # <<>> /\ Top.pc = "enter"
  /\ IF Top.url \in visited_urls
     THEN Return /\ UNCHANGED visited_urls
     ELSE /\ visited_urls' = MarkVisited(visited_urls, Top.url)
          /\ wstack' = ReplaceTop([Top EXCEPT !.pc = "download"])
          /\ UNCHANGED wpc
  /\ UNCHANGED <<category_map, skipped, calls, lastCall, sleeps>>
  /\ UNCHANGED <<crawlVars, parseVars, selectorVars, siteVars>>

\* scrape_categories(url): content = self.downloader.download_page(url)
WalkDownload ==
  /\ wpc = "running" /\ wstack # <<>> /\ Top.pc = "download"
  /\ \E resp \in NetResponses :
       LET r == download_page(resp) IN
       /\ calls' = Append(calls, CallRec(Top.url, "category", NoPath))
       /\ lastCall' = LastCallRec(Top.url, resp, r)
       /\ IF ~r.ok
          THEN /\ Return
               /\ visited_urls' = AfterFailedDownload(visited_urls, Top.url)
          ELSE /\ wstack' = ReplaceTop([Top EXCEPT !.pc = "content"])
               /\ UNCHANGED <<wpc, visited_urls>>
  /\ UNCHANGED <<category_map, skipped, sleeps>>
  /\ UNCHANGED <<crawlVars, parseVars, selectorVars, siteVars>>

\* scrape_categories(url): 'if not content', the breadcrumb and the sidebar
\* of the page that came back
WalkPage ==
  /\ wpc = "running" /\ wstack # <<>> /\ Top.pc = "content"
  /\ \E page \in WalkPages :
       IF page.empty
       THEN Return /\ UNCHANGED category_map
       ELSE /\ category_map' =
                 StoreCategory(category_map, page.breadcrumb, Top.url)
            /\ wstack' = ReplaceTop([Top EXCEPT
                                        !.pc = "loop",
                                        !.category_path = page.breadcrumb,
                                        !.nlinks = page.nlinks])
            /\ UNCHANGED wpc
  /\ UNCHANGED <<visited_urls, skipped, calls, lastCall, sleeps>>
  /\ UNCHANGED <<crawlVars, parseVars, selectorVars, siteVars>>

\* scrape_categories(url): one iteration of the loop over the sidebar links
WalkLink ==
  /\ wpc = "running" /\ wstack # <<>> /\ Top.pc = "loop"
  /\ IF Top.pos >= Top.nlinks
     THEN Return /\ UNCHANGED skipped
     ELSE \E href \in SidebarHrefs :
          LET rest == [Top EXCEPT !.pos = RestLinks(Top.pos)]
          IN /\ UNCHANGED wpc
             /\ IF ~HasTaxonomyPrefix(href)
                THEN /\ wstack' = ReplaceTop(rest)
                     /\ UNCHANGED skipped
                ELSE IF urljoin(href) \in visited_urls
                THEN /\ wstack' = ReplaceTop(rest)
                     /\ skipped' = skipped \cup {urljoin(href)}
                ELSE /\ wstack' = Append(ReplaceTop(rest),
                                         Frame(urljoin(href)))
                     /\ UNCHANGED skipped
  /\ UNCHANGED <<visited_urls, category_map, calls, lastCall, sleeps>>
  /\ UNCHANGED <<crawlVars, parseVars, selectorVars, siteVars>>

----------------------------------------------------------------------------
(* ProductScraper: the crawl of the selected categories *)

\* str.lower() on the chunks of text the model's labels are made of
LowerChunk(c) ==
  CASE c = "O" -> "o"
    [] c = "K" -> "k"
    [] c = "Alle Produkte" -> "alle produkte"
    [] OTHER -> c

\* urllib.parse.quote on the same chunks: non-ASCII text is UTF-8
\* percent-encoded, a space becomes %20, ASCII letters stay
QuoteChunk(c) ==
  CASE c = "ä" -> "%C3%A4"
    [] c = "alle produkte" -> "alle%20produkte"
    [] OTHER -> c

\* quote(part.lower())
QuoteLower(label) == [i \in DOMAIN label |-> QuoteChunk(LowerChunk(label[i]))]

RECURSIVE StripRootPrefix(_)
\* category_path.replace("Alle Produkte > ", "").split(" > "): every
\* "Alle Produkte" label that another label follows goes away
StripRootPrefix(path) ==
  IF Len(path) <= 1 THEN path
  ELSE IF Head(path) = LAlle THEN StripRootPrefix(Tail(path))
  ELSE <<Head(path)>> \o StripRootPrefix(Tail(path))

\* A faulty variant: the URL recorded at discovery is used when there is one.
_get_category_url_prefer_discovered(category_path, discovered) ==
  IF category_path \in DOMAIN discovered THEN discovered[category_path]
  ELSE LET parts == StripRootPrefix(category_path) IN
       Url(base_url, <<SegOB, SegAP>>
                     \o [i \in DOMAIN parts |-> QuoteLower(parts[i])]
                     \o <<EmptySeg>>)

\* _get_category_url, as scrape_category calls it.  'discovered' is the
\* content of categories_with_urls.json, which the method does not read.
_get_category_url(category_path, discovered) ==
  LET parts == StripRootPrefix(category_path) IN
  Url(base_url, <<SegOB, SegAP>>
                \o [i \in DOMAIN parts |-> QuoteLower(parts[i])]
                \o <<EmptySeg>>)

\* The URLs the site itself uses for the two categories (its slugs).
SiteObstUrl == Url(base_url, <<SegOB, SegAP, <<"o", "bst">>, EmptySeg>>)

SiteKaeseUrl == Url(base_url, <<SegOB, SegAP, <<"k", "ae", "se">>, EmptySeg>>)

\* categories_with_urls.json as save_categories writes it, or absent/empty
DiscoveredMaps ==
  {<<>>, [p \in CategoryPaths |->
            IF p = PathObst THEN SiteObstUrl ELSE SiteKaeseUrl]}

\* The lists category_preferences.json can hold: CategorySelector keeps the
\* selection as a set and save_preferences writes list(sorted(set)), so no
\* path is listed twice; any order is let in.
SelectionLists ==
  {l \in SeqsUpTo(CategoryPaths, Cardinality(CategoryPaths)) :
     \A i, j \in DOMAIN l : l[i] = l[j] => i = j}

\* category_preferences.json: absent, without the key, or with a list
PrefsFiles ==
  {[exists |-> FALSE, hasKey |-> FALSE, list |-> <<>>],
   [exists |-> TRUE, hasKey |-> FALSE, list |-> <<>>]}
  \cup [exists : {TRUE}, hasKey : {TRUE}, list : SelectionLists]

\* A faulty variant: a missing file reads as a default selection.
_load_selected_categories_default(file) ==
  IF ~file.exists THEN [raised |-> FALSE, value |-> <<PathObst>>]
  ELSE [raised |-> FALSE, value |-> IF file.hasKey THEN file.list ELSE <<>>]

\* _load_selected_categories: FileNotFoundError if the file is missing,
\* else data.get('selected_categories', [])
_load_selected_categories(file) ==
  IF ~file.exists THEN [raised |-> TRUE, value |-> <<>>]
  ELSE [raised |-> FALSE, value |-> IF file.hasKey THEN file.list ELSE <<>>]

ProductPathApfel == <<SegOB, SegAP, <<"o", "bst">>, <<"20163">>, <<"apfel">>>>

ProductPathBirne ==
  <<SegOB, SegAP, <<"o", "bst">>, <<"20164">>, <<"birne">>, EmptySeg>>

HrefApfelRel == Url("", ProductPathApfel)

HrefApfelAbs == Url(base_url, ProductPathApfel)

HrefBirne == Url("", ProductPathBirne)

\* an anchor whose href is missing or empty
NoHref == Url("", <<>>)

ListingHrefs == {HrefApfelRel, HrefApfelAbs, HrefBirne, NoHref}

\* A listing page: empty text or not, and the hrefs of the product--image
\* anchors of the listing container in document order (no container reads
\* as no anchors).
ListingPages ==
  [empty : {FALSE}, anchors : SeqsUpTo(ListingHrefs, MaxListing)]
  \cup {[empty |-> TRUE, anchors |-> <<>>]}

\* _extract_product_urls: 'if href:' drops the anchors without one, urljoin
\* makes the rest absolute, document order is kept
_extract_product_urls(anchors) ==
  LET kept == SelectSeq(anchors, LAMBDA h : h # NoHref)
  IN [i \in DOMAIN kept |-> urljoin(kept[i])]

\* A product page: empty text, or a page with or without the product--title
ProductPages == {"empty", "no_title", "titled"}

\* _parse_product_page: None without a title, else the Product; its id is
\* url.split('/')[-1]
_parse_product_page(page, url, category_path) ==
  IF page = "titled"
  THEN [ok |-> TRUE,
        product |-> [id |-> Last(url.path), url |-> url,
                     category_path |-> category_path]]
  ELSE [ok |-> FALSE,
        product |-> [id |-> EmptySeg, url |-> url,
                     category_path |-> category_path]]

\* A faulty variant: whatever the parser returned is kept.
IsProductAlways(r) == TRUE

\* 'if product:' on what _parse_product_page returned
IsProduct(r) == r.ok

\* A faulty variant: the cache is never hit.
InCacheNever(cache, url) == FALSE

\* if url in self.products_cache
InCache(cache, url) == url \in DOMAIN cache

\* A faulty variant: the reused product is given the current category.
CachedProductRelabelled(cache, url, category_path) ==
  [cache[url] EXCEPT !.category_path = category_path]

\* products.append(self.products_cache[url]): the cached Product as it is,
\* whatever category is being scraped
CachedProduct(cache, url, category_path) == cache[url]

\* self.products_cache[url] = product
CachePut(cache, url, product) ==
  [u \in DOMAIN cache \cup {url} |-> IF u = url THEN product ELSE cache[u]]

\* A faulty variant: the loop over the product URLs ends at the first
\* failed fetch.
AfterFailedFetchBreak(idx, n) == n + 1

\* 'continue' after a failed product download: on to the next URL
AfterFailedFetch(idx, n) == idx + 1

\* A faulty variant: the loop goes on to the next URL without a pause.
SleepAfterProductNone(log, n) == log

\* time.sleep(1) at the end of an iteration that downloaded a product page;
\* n is the number of download_page calls made before it
SleepAfterProduct(log, n) == Append(log, n)

\* A faulty variant: the run gives up at the first listing that fails.
AfterFailedListingAbort(idx, n) == n + 1

\* 'return products' (still empty) when the listing page did not come, and
\* the for loop of scrape_all_selected_categories goes to the next category
AfterFailedListing(idx, n) == idx + 1

\* A faulty variant: the products of a category are put in front.
ExtendProductsInFront(all, ps) == ps \o all

\* all_products.extend(products)
ExtendProducts(all, ps) == all \o ps

Urls(ps) == [i \in DOMAIN ps |-> ps[i].url]

ProcRec(how) ==
  [cat |-> catIdx, pos |-> urlIdx, url |-> product_urls[urlIdx], how |-> how]

CurrentCategory == categories[catIdx]

\* self.selected_categories[:1]
FirstOnly(list) == IF list = <<>> THEN <<>> ELSE <<list[1]>>

\* main(): scraper = ProductScraper()
CrawlConstruct ==
  /\ ppc = "start"
  /\ LET r == _load_selected_categories(prefs_file) IN
     IF r.raised
     THEN /\ ppc' = "config_error"
          /\ UNCHANGED selected_categories
     ELSE /\ ppc' = "constructed"
          /\ selected_categories' = r.value
  /\ products_cache' = <<>>
  /\ UNCHANGED <<prefs_file, categories_file, categories, catIdx,
                 all_products, product_urls, urlIdx, products, proc,
                 listings, returned, saved, calls, lastCall, sleeps>>
  /\ UNCHANGED <<walkVars, parseVars, selectorVars, siteVars>>

\* scrape_all_selected_categories(test_mode) up to its for loop
CrawlStart ==
  /\ ppc = "constructed"
  /\ \E test_mode \in BOOLEAN :
       categories' = IF test_mode
                     THEN FirstOnly(selected_categories)
                     ELSE selected_categories
  /\ all_products' = <<>>
  /\ catIdx' = 1
  /\ ppc' = "loop"
  /\ UNCHANGED <<prefs_file, categories_file, selected_categories,
                 products_cache, product_urls, urlIdx, products, proc,
                 listings, returned, saved, calls, lastCall, sleeps>>
  /\ UNCHANGED <<walkVars, parseVars, selectorVars, siteVars>>

\* scrape_category returns 'products' and the for loop of
\* scrape_all_selected_categories extends all_products with them
ReturnProducts(ps, urls, next) ==
  /\ returned' = Append(returned, ps)
  /\ listings' = Append(listings, [category |-> CurrentCategory, urls |-> urls])
  /\ all_products' = ExtendProducts(all_products, ps)
  /\ catIdx' = next
  /\ ppc' = "loop"
  /\ products' = <<>>
  /\ product_urls' = <<>>
  /\ urlIdx' = 0

\* scrape_category(category): the download of the listing page
CrawlCategory ==
  /\ ppc = "loop" /\ catIdx <= Len(categories)
  /\ \E resp \in NetResponses :
       LET r   == download_page(resp)
           url == _get_category_url(CurrentCategory, categories_file)
       IN /\ calls' = Append(calls, CallRec(url, "listing", CurrentCategory))
          /\ lastCall' = LastCallRec(url, resp, r)
          /\ IF ~r.ok
             THEN ReturnProducts(<<>>, <<>>,
                                 AfterFailedListing(catIdx, Len(categories)))
             ELSE /\ ppc' = "listing"
                  /\ UNCHANGED <<all_products, catIdx, products, product_urls,
                                 urlIdx, listings, returned>>
  /\ UNCHANGED <<prefs_file, categories_file, selected_categories,
                 products_cache, categories, proc, saved, sleeps>>
  /\ UNCHANGED <<walkVars, parseVars, selectorVars, siteVars>>

\* scrape_category(category): 'if not page_content' and the product URLs of
\* the listing page that came back
CrawlListing ==
  /\ ppc = "listing"
  /\ \E page \in ListingPages :
       IF page.empty
       THEN ReturnProducts(<<>>, <<>>,
                           AfterFailedListing(catIdx, Len(categories)))
       ELSE /\ product_urls' = _extract_product_urls(page.anchors)
            /\ products' = <<>>
            /\ urlIdx' = 1
            /\ ppc' = "products"
            /\ UNCHANGED <<all_products, catIdx, listings, returned>>
  /\ UNCHANGED <<prefs_file, categories_file, selected_categories,
                 products_cache, categories, proc, saved, calls, lastCall,
                 sleeps>>
  /\ UNCHANGED <<walkVars, parseVars, selectorVars, siteVars>>

\* one iteration of 'for url in product_urls' up to the download: the cache
\* lookup, then download_page(url)
CrawlProduct ==
  /\ ppc = "products" /\ urlIdx <= Len(product_urls)
  /\ LET url == product_urls[urlIdx] IN
     IF InCache(products_cache, url)
     THEN /\ products' = Append(products,
                                CachedProduct(products_cache, url,
                                              CurrentCategory))
          /\ proc' = Append(proc, ProcRec("cached"))
          /\ urlIdx' = urlIdx + 1
          /\ UNCHANGED <<ppc, calls, lastCall>>
     ELSE \E resp \in NetResponses :
            LET r == download_page(resp) IN
            /\ calls' = Append(calls, CallRec(url, "product", CurrentCategory))
            /\ lastCall' = LastCallRec(url, resp, r)
            /\ IF ~r.ok
               THEN /\ proc' = Append(proc, ProcRec("failed"))
                    /\ urlIdx' = AfterFailedFetch(urlIdx, Len(product_urls))
                    /\ UNCHANGED <<ppc, products>>
               ELSE /\ ppc' = "product_page"
                    /\ UNCHANGED <<proc, urlIdx, products>>
  /\ UNCHANGED <<prefs_file, categories_file, selected_categories,
                 products_cache, categories, catIdx, all_products,
                 product_urls, listings, returned, saved, sleeps>>
  /\ UNCHANGED <<walkVars, parseVars, selectorVars, siteVars>>

\* the rest of the iteration: 'if not product_html', _parse_product_page,
\* the append and the caching, time.sleep(1)
CrawlProductPage ==
  /\ ppc = "product_page"
  /\ LET url == product_urls[urlIdx] IN
     \E page \in ProductPages :
       LET r == _parse_product_page(page, url, CurrentCategory) IN
       IF page = "empty"
       THEN /\ proc' = Append(proc, ProcRec("failed"))
            /\ urlIdx' = AfterFailedFetch(urlIdx, Len(product_urls))
            /\ UNCHANGED <<products, products_cache, sleeps>>
       ELSE /\ proc' = Append(proc, ProcRec(IF r.ok THEN "parsed"
                                                     ELSE "unparsed"))
            /\ IF IsProduct(r)
               THEN /\ products' = Append(products, r.product)
                    /\ products_cache' =
                          CachePut(products_cache, url, r.product)
               ELSE UNCHANGED <<products, products_cache>>
            /\ sleeps' = SleepAfterProduct(sleeps, Len(calls))
            /\ urlIdx' = urlIdx + 1
  /\ ppc' = "products"
  /\ UNCHANGED <<prefs_file, categories_file, selected_categories, categories,
                 catIdx, all_products, product_urls, listings, returned,
                 saved, calls, lastCall>>
  /\ UNCHANGED <<walkVars, parseVars, selectorVars, siteVars>>

\* the product loop is over: return products
CrawlCategoryDone ==
  /\ ppc = "products" /\ urlIdx > Len(product_urls)
  /\ ReturnProducts(products, product_urls, catIdx + 1)
  /\ UNCHANGED <<prefs_file, categories_file, selected_categories,
                 products_cache, categories, proc, saved, calls, lastCall,
                 sleeps>>
  /\ UNCHANGED <<walkVars, parseVars, selectorVars, siteVars>>

\* the for loop of scrape_all_selected_categories is over:
\* self.save_products(all_products)
CrawlSave ==
  /\ ppc = "loop" /\ catIdx > Len(categories)
  /\ saved' = [called |-> TRUE, products |-> all_products]
  /\ ppc' = "done"
  /\ UNCHANGED <<prefs_file, categories_file, selected_categories,
                 products_cache, categories, catIdx, all_products,
                 product_urls, urlIdx, products, proc, listings, returned,
                 calls, lastCall, sleeps>>
  /\ UNCHANGED <<walkVars, parseVars, selectorVars, siteVars>>

\* KeyboardInterrupt while main() runs: nothing between the raise and
\* main's 'except KeyboardInterrupt' handles it, and the handler only prints
CrawlInterrupt ==
  /\ ppc \in {"start", "constructed", "loop", "listing", "products",
              "product_page"}
  /\ ppc' = "interrupted"
  /\ UNCHANGED <<prefs_file, categories_file, selected_categories,
                 products_cache, categories, catIdx, all_products,
                 product_urls, urlIdx, products, proc, listings, returned,
                 saved, calls, lastCall, sleeps>>
  /\ UNCHANGED <<walkVars, parseVars, selectorVars, siteVars>>

InitCrawlFresh ==
  /\ selected_categories = <<>>
  /\ products_cache = <<>>
  /\ categories = <<>>
  /\ catIdx = 0
  /\ all_products = <<>>
  /\ product_urls = <<>>
  /\ urlIdx = 0
  /\ products = <<>>
  /\ proc = <<>>
  /\ listings = <<>>
  /\ returned = <<>>
  /\ saved = [called |-> FALSE, products |-> <<>>]

InitParseIdle == input = NoText /\ output = NotCalled

InitSelectorIdle ==
  /\ sel_file = [exists |-> FALSE, categories |-> {}]
  /\ sel_categories = {} /\ sel_selected = {}
  /\ sel_pc = "idle" /\ sel_input = NoInput

InitSiteFresh ==
  /\ site_visited_urls = {}
  /\ site_product_urls = {}
  /\ site_stack = <<>>
  /\ site_call = NoSiteCall
  /\ site_links = {}
  /\ site_errors = FALSE

InitCrawlIdle ==
  /\ InitCrawlFresh
  /\ prefs_file = [exists |-> FALSE, hasKey |-> FALSE, list |-> <<>>]
  /\ categories_file = <<>>
  /\ ppc = "idle"

InitWalkFresh ==
  /\ visited_urls = {}
  /\ category_map = <<>>
  /\ wstack = <<>>
  /\ skipped = {}
  /\ calls = <<>>
  /\ lastCall = NoCall
  /\ sleeps = <<>>

InitWalk ==
  /\ InitWalkFresh /\ wpc = "init"
  /\ InitCrawlIdle /\ InitParseIdle /\ InitSelectorIdle
  /\ InitSiteFresh /\ site_pc = "idle"

NextWalk == WalkStart \/ WalkEnter \/ WalkDownload \/ WalkPage \/ WalkLink

SpecWalk == InitWalk /\ [][NextWalk]_vars

\* The walker is one sequential process: it keeps running until it returns.
LiveWalk == SpecWalk /\ WF_vars(NextWalk)

InitCrawl ==
  /\ InitWalkFresh /\ wpc = "idle"
  /\ InitCrawlFresh
  /\ prefs_file \in PrefsFiles
  /\ categories_file \in DiscoveredMaps
  /\ ppc = "start"
  /\ InitParseIdle /\ InitSelectorIdle /\ InitSiteFresh /\ site_pc = "idle"

NextCrawl ==
  \/ CrawlConstruct \/ CrawlStart \/ CrawlCategory \/ CrawlListing
  \/ CrawlProduct \/ CrawlProductPage \/ CrawlCategoryDone \/ CrawlSave
  \/ CrawlInterrupt

SpecCrawl == InitCrawl /\ [][NextCrawl]_vars

\* One run of either program: the walker or the product crawl.
InitRun == InitWalk \/ InitCrawl

NextRun == NextWalk \/ NextCrawl

SpecRun == InitRun /\ [][NextRun]_vars

----------------------------------------------------------------------------
(* ProductScraper._extract_price_info *)

\* The characters the texts of the price elements are made of.
TextChars == {"(", "€", "/", ")", "3", ",", " "}

\* span.price--content: absent, a price, or text that is no number
PriceSpans ==
  {[present |-> FALSE, text |-> <<>>],
   [present |-> TRUE, text |-> <<"3", ",", "3", " ", "€">>],
   [present |-> TRUE, text |-> <<"€", "€">>]}

\* div.price--unit: absent, or present with any text
UnitDivs ==
  {[present |-> FALSE, text |-> <<>>]}
  \cup [present : {TRUE}, text : SeqsUpTo(TextChars, MaxText)]

PricePages == [price : PriceSpans, unit : UnitDivs]

\* price = 0.0
ZeroPrice == [null |-> FALSE, lit |-> <<"0", ".", "0">>]

\* the first try block: float(price_text.replace('€', '').replace(',', '.')
\* .strip()), the default kept on ValueError
MainPrice(span) ==
  IF ~span.present THEN ZeroPrice
  ELSE LET f == Float(Strip(Replace(Remove(Strip(span.text), "€"), ",", ".")))
       IN IF f.raised THEN ZeroPrice ELSE f.value

\* _extract_price_info(soup).  In the second try block 'unit' is assigned
\* before float() is called, so it keeps the sliced text when float() raises.
_extract_price_info(page) ==
  LET unit_text  == Strip(page.unit.text)
      price_part == Strip(Slice(unit_text, Find(unit_text, "(") + 1,
                                Find(unit_text, "€")))
      unit       == Strip(Slice(unit_text, Find(unit_text, "/") + 1,
                                Find(unit_text, ")")))
      f          == Float(Replace(price_part, ",", "."))
  IN IF ~page.unit.present
     THEN [price |-> MainPrice(page.price), unit_price |-> None,
           unit |-> <<>>, raised |-> FALSE]
     ELSE [price |-> MainPrice(page.price),
           unit_price |-> IF f.raised THEN None ELSE f.value,
           unit |-> unit, raised |-> FALSE]

\* price, unit_price, unit = self._extract_price_info(soup)
ExtractPriceInfo ==
  /\ input \in PricePages /\ output = NotCalled
  /\ output' = _extract_price_info(input)
  /\ UNCHANGED <<input, calls, lastCall, sleeps>>
  /\ UNCHANGED <<walkVars, crawlVars, selectorVars, siteVars>>

InitPrice ==
  /\ InitWalkFresh /\ wpc = "idle"
  /\ InitCrawlIdle
  /\ InitSelectorIdle /\ InitSiteFresh /\ site_pc = "idle"
  /\ input \in PricePages
  /\ output = NotCalled

SpecPrice == InitPrice /\ [][ExtractPriceInfo]_vars

----------------------------------------------------------------------------
(* ProductScraper._extract_nutrition_info: one row of the nutrition table *)

RECURSIVE SetsUpTo(_, _)
SetsUpTo(S, n) ==
  IF n = 0 THEN {{}}
  ELSE LET P == SetsUpTo(S, n - 1) IN P \cup {q \cup {x} : q \in P, x \in S}

\* The words a row label (lower-cased) can be made of: the keywords the
\* rules look for, and one word no rule looks for.
LabelWords ==
  {"portion", "serving", "energie", "energy", "fett", "fat", "davon",
   "saturated", "kohlenhydrate", "carbohydrate", "zucker", "sugar",
   "protein", "eiweiß", "salz", "salt", "ballaststoffe", "fiber", "vitamin"}

\* A label is told by the words it holds: 'kw in nutrient' is all the rules
\* ask of it.
Labels == SetsUpTo(LabelWords, MaxWords)

TokNumber == <<"3", ",", "3">>

TokGram == <<"g">>

TokKcal == <<"k", "c", "a", "l">>

TokKJ == <<"k", "J">>

\* The text of the second column, as its blank-separated tokens.
ValueTokens == {TokNumber, TokGram, TokKcal, TokKJ}

Values == SeqsUpTo(ValueTokens, MaxTokens)

NutritionRows == [nutrient : Labels, value : Values]

\* str.lower() on the characters of a value
LowerText(t) == [i \in DOMAIN t |-> IF t[i] = "J" THEN "j" ELSE t[i]]

\* kw in value.lower(), for a keyword that is one token
InLowerValue(kw, value) == \E i \in DOMAIN value : LowerText(value[i]) = kw

Slots ==
  {"serving_size", "energy_kcal", "energy_kj", "fat_total", "fat_saturated",
   "carbohydrates_total", "carbohydrates_sugar", "protein", "salt", "fiber"}

Unset == [set |-> FALSE, value |-> None, unit |-> None, raw |-> NoText]

\* NutritionInfo(): every slot None
EmptyNutrition == [slot \in Slots |-> Unset]

\* NutrientValue(value=..., unit=...)
NutrientValue(value, unit) ==
  [set |-> TRUE, value |-> value, unit |-> unit, raw |-> NoText]

\* _parse_numeric_value(value): the number and the unit of the text, split
\* on blanks, decimal comma to point; NutrientValue() if it does not convert
_parse_numeric_value(value) ==
  IF value = <<>> THEN NutrientValue(None, None)
  ELSE LET f == Float(Replace(value[1], ",", "."))
           unit == IF Len(value) > 1
                   THEN [null |-> FALSE, lit |-> value[2]] ELSE None
       IN IF f.raised THEN NutrientValue(None, None)
          ELSE NutrientValue(f.value, unit)

\* label contains "portion"/"serving"
IsServingLabel(nutrient) == "portion" \in nutrient \/ "serving" \in nutrient

\* label contains "energie"/"energy"
IsEnergyLabel(nutrient) == "energie" \in nutrient \/ "energy" \in nutrient

\* the body of the energy branch: kcal is looked for first, then kj
EnergyRule(nutrition, value) ==
  IF InLowerValue(TokKcal, value)
  THEN [nutrition EXCEPT !["energy_kcal"] = _parse_numeric_value(value)]
  ELSE IF InLowerValue(<<"k", "j">>, value)
  THEN [nutrition EXCEPT !["energy_kj"] = _parse_numeric_value(value)]
  ELSE nutrition

\* A faulty variant: the 'davon'/'saturated' test of the fat rule is left out.
LabelRulesFatOnly(nutrition, nutrient, value) ==
  IF "fett" \in nutrient \/ "fat" \in nutrient
  THEN [nutrition EXCEPT !["fat_total"] = _parse_numeric_value(value)]
  ELSE nutrition

\* the elif chain on the label after the energy branch: fat, carbohydrates,
\* protein, salt, fiber
LabelRules(nutrition, nutrient, value) ==
  IF "fett" \in nutrient \/ "fat" \in nutrient
  THEN IF "davon" \in nutrient \/ "saturated" \in nutrient
       THEN [nutrition EXCEPT
               !["fat_saturated"] = _parse_numeric_value(value)]
       ELSE [nutrition EXCEPT !["fat_total"] = _parse_numeric_value(value)]
  ELSE IF "kohlenhydrate" \in nutrient \/ "carbohydrate" \in nutrient
  THEN IF "zucker" \in nutrient \/ "sugar" \in nutrient
       THEN [nutrition EXCEPT
               !["carbohydrates_sugar"] = _parse_numeric_value(value)]
       ELSE [nutrition EXCEPT
               !["carbohydrates_total"] = _parse_numeric_value(value)]
  ELSE IF "protein" \in nutrient \/ "eiweiß" \in nutrient
  THEN [nutrition EXCEPT !["protein"] = _parse_numeric_value(value)]
  ELSE IF "salz" \in nutrient \/ "salt" \in nutrient
  THEN [nutrition EXCEPT !["salt"] = _parse_numeric_value(value)]
  ELSE IF "ballaststoffe" \in nutrient \/ "fiber" \in nutrient
  THEN [nutrition EXCEPT !["fiber"] = _parse_numeric_value(value)]
  ELSE nutrition

\* the classification of one row: serving first (raw text), then energy,
\* then the rules on the label
ClassifyRow(nutrition, nutrient, value) ==
  IF IsServingLabel(nutrient)
  THEN [nutrition EXCEPT !["serving_size"] =
          [set |-> TRUE, value |-> None, unit |-> None, raw |-> value]]
  ELSE IF IsEnergyLabel(nutrient) THEN EnergyRule(nutrition, value)
  ELSE LabelRules(nutrition, nutrient, value)

\* _extract_nutrition_info on a table of one row
ExtractNutritionRow ==
  /\ input \in NutritionRows /\ output = NotCalled
  /\ output' = ClassifyRow(EmptyNutrition, input.nutrient, input.value)
  /\ UNCHANGED <<input, calls, lastCall, sleeps>>
  /\ UNCHANGED <<walkVars, crawlVars, selectorVars, siteVars>>

InitNutrition ==
  /\ InitWalkFresh /\ wpc = "idle"
  /\ InitCrawlIdle
  /\ InitSelectorIdle /\ InitSiteFresh /\ site_pc = "idle"
  /\ input \in NutritionRows
  /\ output = NotCalled

SpecNutrition == InitNutrition /\ [][ExtractNutritionRow]_vars

----------------------------------------------------------------------------
(* CategorySelector (utils/category_selector.py) *)

LApfel == <<"Apfel">>

LBio == <<"Bio">>

PathRoot == <<LAlle>>

PathObstApfel == <<LAlle, LObst, LApfel>>

PathObstBio == <<LAlle, LObst, LBio>>

PathKaeseBio == <<LAlle, LKaese, LBio>>

\* a path that does not start at the root label
PathStray == <<LObst, LBio>>

\* The paths categories.json can list.
SelectorPaths ==
  {PathRoot, PathObst, PathKaese, PathObstApfel, PathObstBio, PathKaeseBio,
   PathStray}

CategoryFiles ==
  {[exists |-> FALSE, categories |-> {}]}
  \cup [exists : {TRUE}, categories : SUBSET SelectorPaths]

\* category_preferences.json before the selector runs
SelectorPrefs ==
  {[exists |-> FALSE, hasKey |-> FALSE, list |-> <<>>],
   [exists |-> TRUE, hasKey |-> FALSE, list |-> <<>>],
   [exists |-> TRUE, hasKey |-> TRUE, list |-> <<PathKaese>>],
   [exists |-> TRUE, hasKey |-> TRUE, list |-> <<PathStray>>]}

\* The place of a label in the order of Python's string comparison.
LabelRank(label) ==
  CASE label = LAlle -> 1
    [] label = LApfel -> 2
    [] label = LBio -> 3
    [] label = LKaese -> 4
    [] label = LObst -> 5
    [] OTHER -> 0

\* The place of ' > '.join(path) in that order: label by label, a path
\* before its extensions.
PathRank(path) ==
  (IF Len(path) >= 1 THEN 100 * LabelRank(path[1]) ELSE 0)
  + (IF Len(path) >= 2 THEN 10 * LabelRank(path[2]) ELSE 0)
  + (IF Len(path) >= 3 THEN LabelRank(path[3]) ELSE 0)

\* sorted(...) of a set of paths
SortedPaths(S) ==
  CHOOSE q \in [1..Cardinality(S) -> S] :
    \A i, j \in 1..Cardinality(S) : i < j => PathRank(q[i]) < PathRank(q[j])

\* _load_categories: the listed paths other than the root that start with
\* "Alle Produkte > "
_load_categories(file) ==
  {cat \in file.categories : Len(cat) >= 2 /\ cat[1] = LAlle}

\* _load_preferences: set(data.get('selected_categories', [])), set() if
\* there is no file
_load_preferences(file) ==
  IF file.exists /\ file.hasKey
  THEN {file.list[i] : i \in DOMAIN file.list} ELSE {}

\* get_main_departments: the second labels of the paths of two labels,
\* sorted
get_main_departments(cats) ==
  LET q == SortedPaths({cat \in cats : Len(cat) = 2})
  IN [i \in DOMAIN q |-> q[i][2]]

\* get_subcategories(department): what follows the department in the longer
\* paths of the department, sorted
get_subcategories(cats, department) ==
  LET q == SortedPaths({cat \in cats : Len(cat) > 2 /\ cat[2] = department})
  IN [i \in DOMAIN q |-> SubSeq(q[i], 3, Len(q[i]))]

\* A faulty variant: only the subcategories of the department are taken.
EntireDepartmentSubcategories(cats, department) ==
  {cat \in cats : Len(cat) > 2 /\ cat[2] = department}

\* option 0: cat for cat in self.categories
\*           if cat.split(' > ')[1] == department
EntireDepartment(cats, department) == {cat \in cats : cat[2] = department}

\* the other answers: the paths of the department whose remainder is one of
\* the subcategories picked by number; numbers out of range pick nothing
PickedSubcategories(cats, department, idxs) ==
  LET subcats == get_subcategories(cats, department)
  IN {cat \in cats :
        /\ cat[2] = department
        /\ \E k \in idxs : /\ 1 <= k /\ k <= Len(subcats)
                            /\ SubSeq(cat, 3, Len(cat)) = subcats[k]}

\* What the operator can type at the subcategory prompt: "0", a list of
\* numbers, or something that is no list of numbers.
SubChoices ==
  {[kind |-> "zero", idxs |-> {}], [kind |-> "invalid", idxs |-> {}]}
  \cup [kind : {"list"}, idxs : SUBSET (0..3)]

\* main(): selector = CategorySelector()
SelectorConstruct ==
  /\ sel_pc = "start"
  /\ IF ~sel_file.exists
     THEN /\ sel_pc' = "config_error"
          /\ UNCHANGED <<sel_categories, sel_selected>>
     ELSE /\ sel_pc' = "prompt"
          /\ sel_categories' = _load_categories(sel_file)
          /\ sel_selected' = _load_preferences(prefs_file)
  /\ UNCHANGED <<sel_file, sel_input, prefs_file, calls, lastCall, sleeps>>
  /\ UNCHANGED <<walkVars, parseVars, siteVars>>
  /\ UNCHANGED <<categories_file, selected_categories, products_cache, ppc,
                 categories, catIdx, all_products, product_urls, urlIdx,
                 products, proc, listings, returned, saved>>

\* select_categories: one department number of the operator's answer and
\* the answer to the subcategory prompt that follows it
SelectDepartment ==
  /\ sel_pc = "prompt" /\ sel_input.n < MaxInputs
  /\ \E idx \in 0..3, sub \in SubChoices :
       LET departments == get_main_departments(sel_categories)
           valid == 1 <= idx /\ idx <= Len(departments)
           department == IF valid THEN departments[idx] ELSE <<>>
       IN /\ sel_selected' =
               IF ~valid \/ sub.kind = "invalid" THEN sel_selected
               ELSE IF sub.kind = "zero"
               THEN sel_selected
                    \cup EntireDepartment(sel_categories, department)
               ELSE sel_selected
                    \cup PickedSubcategories(sel_categories, department,
                                             sub.idxs)
          /\ sel_input' = [n |-> sel_input.n + 1, department |-> department,
                           sub |-> IF valid THEN sub.kind ELSE "none",
                           before |-> sel_selected]
  /\ UNCHANGED <<sel_file, sel_categories, sel_pc, prefs_file, calls,
                 lastCall, sleeps>>
  /\ UNCHANGED <<walkVars, parseVars, siteVars>>
  /\ UNCHANGED <<categories_file, selected_categories, products_cache, ppc,
                 categories, catIdx, all_products, product_urls, urlIdx,
                 products, proc, listings, returned, saved>>

\* select_categories: 'done', then save_preferences
SelectDone ==
  /\ sel_pc = "prompt"
  /\ sel_pc' = "saved"
  /\ prefs_file' = [exists |-> TRUE, hasKey |-> TRUE,
                    list |-> SortedPaths(sel_selected)]
  /\ UNCHANGED <<sel_file, sel_categories, sel_selected, sel_input, calls,
                 lastCall, sleeps>>
  /\ UNCHANGED <<walkVars, parseVars, siteVars>>
  /\ UNCHANGED <<categories_file, selected_categories, products_cache, ppc,
                 categories, catIdx, all_products, product_urls, urlIdx,
                 products, proc, listings, returned, saved>>

InitSelector ==
  /\ InitWalkFresh /\ wpc = "idle"
  /\ InitCrawlFresh /\ categories_file = <<>> /\ ppc = "idle"
  /\ InitParseIdle /\ InitSiteFresh /\ site_pc = "idle"
  /\ prefs_file \in SelectorPrefs
  /\ sel_file \in CategoryFiles
  /\ sel_categories = {} /\ sel_selected = {}
  /\ sel_pc = "start" /\ sel_input = NoInput

NextSelector == SelectorConstruct \/ SelectDepartment \/ SelectDone

SpecSelector == InitSelector /\ [][NextSelector]_vars

----------------------------------------------------------------------------
(* KonsumSiteScraper: the depth-limited site crawler (konsum_crawler.py) *)

\* self.start_url, by default 'https://www.konsum-leipzig.de/online-bestellen/'
site_start_url == Url(base_url, <<SegOB, EmptySeg>>)

\* crawl(self, url=None, depth=3)
DefaultDepth == 3

SegCheckout == <<"checkout">>

SegAccount == <<"account">>

\* The hrefs an anchor of a page of the site can have: the shop's entry
\* page, three pages of the shop (one of them in both spellings), and
\* links that is_valid_url has a reason to turn down: an image, the
\* checkout, the account, a page outside the shop, another host.
SiteHrefs ==
  {Url("", <<SegOB, EmptySeg>>),
   Url("", <<SegOB, <<"o", "bst">>>>),
   Url("", <<SegOB, <<"apfel", "-", "20163">>>>),
   Url(base_url, <<SegOB, <<"apfel", "-", "20163">>>>),
   Url("", <<SegOB, <<"k", "ä", "se">>, EmptySeg>>),
   Url("", <<SegOB, <<"apfel", ".jpg">>>>),
   Url("", <<SegOB, SegCheckout, <<"cart">>>>),
   Url("", <<SegOB, SegAccount, <<"login">>>>),
   HrefService, HrefExt}

\* '/' + piece + '/' in url: the piece stands in the path with another
\* piece after it (the model's URLs have no query and no fragment)
HasPiece(url, piece) ==
  \E i \in 1..(Len(url.path) - 1) : url.path[i] = piece

\* url.endswith(('.jpg', '.png', '.pdf'))
IsMediaFile(url) ==
  /\ Len(url.path) >= 1
  /\ Len(Last(url.path)) >= 1
  /\ Last(Last(url.path)) \in {".jpg", ".png", ".pdf"}

\* is_valid_url(url)
is_valid_url(url) ==
  /\ url.host = base_url
  /\ HasPiece(url, SegOB)
  /\ ~IsMediaFile(url)
  /\ ~HasPiece(url, SegCheckout)
  /\ ~HasPiece(url, SegAccount)

\* len(piece): the number of characters of a piece of the path
RECURSIVE PieceLen(_)
PieceLen(piece) ==
  IF piece = <<>> THEN 0 ELSE Len(Head(piece)) + PieceLen(Tail(piece))

\* is_product_page(url); without a query, split('?')[0] is the whole piece
is_product_page(url) ==
  /\ HasPiece(url, SegOB)
  /\ PieceLen(Last(url.path)) > 5

\* One activation of crawl: its arguments, its position and the number of
\* anchors the for loop has been through.
SiteFrame(url, depth) ==
  [url |-> url, depth |-> depth, pc |-> "enter", pos |-> 0]

SiteTop == site_stack[Len(site_stack)]

SiteReturn ==
  /\ site_stack' = SubSeq(site_stack, 1, Len(site_stack) - 1)
  /\ site_pc' = IF Len(site_stack) = 1 THEN "done" ELSE site_pc

SiteMove(f) ==
  /\ site_stack' = [site_stack EXCEPT ![Len(site_stack)] = f]
  /\ UNCHANGED site_pc

\* The entry call, crawl(url, depth): main() passes no URL, a caller may
\* pass one of its own, and any depth up to the default one;
\* 'if url is None: url = self.start_url'.
SiteCrawl ==
  /\ site_pc = "start"
  /\ \E url \in {None, Url(base_url, <<SegOB, <<"o", "bst">>>>)},
        depth \in (0 - 1)..DefaultDepth :
        LET u == IF url = None THEN site_start_url ELSE url
        IN /\ site_call' = [url |-> u, depth |-> depth]
           /\ site_stack' = <<SiteFrame(u, depth)>>
  /\ site_pc' = "crawl"
  /\ UNCHANGED <<site_visited_urls, site_product_urls, site_links,
                 site_errors>>
  /\ UNCHANGED <<walkVars, crawlVars, parseVars, selectorVars>>
  /\ UNCHANGED <<calls, lastCall, sleeps>>

\* crawl, lines 42-46: the stop conditions, then visited_urls.add(url)
SiteEnter ==
  /\ site_stack # <<>> /\ SiteTop.pc = "enter"
  /\ IF SiteTop.url \in site_visited_urls \/ SiteTop.depth < 0
     THEN SiteReturn /\ UNCHANGED site_visited_urls
     ELSE /\ site_visited_urls' = site_visited_urls \cup {SiteTop.url}
          /\ SiteMove([SiteTop EXCEPT !.pc = "get"])
  /\ UNCHANGED <<site_product_urls, site_call, site_links, site_errors>>
  /\ UNCHANGED <<walkVars, crawlVars, parseVars, selectorVars>>
  /\ UNCHANGED <<calls, lastCall, sleeps>>

\* crawl, lines 50-56: requests.get either raises a RequestException, which
\* the except clause of this activation prints, or gives a response of any
\* status, whose text is parsed; a product page is recorded.
SiteGet ==
  /\ site_stack # <<>> /\ SiteTop.pc = "get"
  /\ \E outcome \in NetOutcomes :
        IF outcome = "request_exception"
        THEN /\ SiteReturn
             /\ site_errors' = TRUE
             /\ UNCHANGED site_product_urls
        ELSE /\ SiteMove([SiteTop EXCEPT !.pc = "links"])
             /\ site_product_urls' =
                  IF is_product_page(SiteTop.url)
                  THEN site_product_urls \cup {SiteTop.url}
                  ELSE site_product_urls
             /\ UNCHANGED site_errors
  /\ UNCHANGED <<site_visited_urls, site_call, site_links>>
  /\ UNCHANGED <<walkVars, crawlVars, parseVars, selectorVars>>
  /\ UNCHANGED <<calls, lastCall, sleeps>>

\* crawl, lines 59-67: the for loop over the anchors of the page.  The loop
\* ends, or it comes to one more anchor: the href is joined to the base URL
\* and, if valid and not visited, crawled one level deeper before the loop
\* goes on.
SiteLink ==
  /\ site_stack # <<>> /\ SiteTop.pc = "links"
  /\ \/ /\ SiteReturn
        /\ UNCHANGED site_links
     \/ /\ SiteTop.pos < MaxLinks
        /\ \E href \in SiteHrefs :
              LET full_url == urljoin(href)
                  next     == [SiteTop EXCEPT !.pos = @ + 1]
              IN /\ site_links' =
                      IF is_valid_url(full_url)
                      THEN site_links \cup {<<SiteTop.url, full_url>>}
                      ELSE site_links
                 /\ site_stack' =
                      IF /\ is_valid_url(full_url)
                         /\ full_url \notin site_visited_urls
                      THEN Append([site_stack EXCEPT ![Len(site_stack)] = next],
                                  SiteFrame(full_url, SiteTop.depth - 1))
                      ELSE [site_stack EXCEPT ![Len(site_stack)] = next]
                 /\ UNCHANGED site_pc
  /\ UNCHANGED <<site_visited_urls, site_product_urls, site_call,
                 site_errors>>
  /\ UNCHANGED <<walkVars, crawlVars, parseVars, selectorVars>>
  /\ UNCHANGED <<calls, lastCall, sleeps>>

InitSite ==
  /\ InitWalkFresh /\ wpc = "idle"
  /\ InitCrawlIdle /\ InitParseIdle /\ InitSelectorIdle
  /\ InitSiteFresh /\ site_pc = "start"

NextSite == SiteCrawl \/ SiteEnter \/ SiteGet \/ SiteLink

SpecSite == InitSite /\ [][NextSite]_vars

----------------------------------------------------------------------------
(* Claims about the category selector *)

\* C17: choosing the entire department (option 0) adds to
\* selected_categories exactly the loaded category paths whose department
\* label is that department, the department's own path among them, and no
\* answer of the operator ever removes a path: the selected set only grows.
C17_EntireDepartmentAddsItsPaths ==
  [][sel_pc = "prompt" =>
       /\ sel_selected \subseteq sel_selected'
       /\ (sel_input'.n # sel_input.n /\ sel_input'.sub = "zero") =>
            /\ sel_selected' \ sel_selected \subseteq sel_categories
            /\ \A cat \in sel_categories :
                  cat \in sel_selected' <=>
                    (cat \in sel_selected
                       \/ cat[2] = sel_input'.department)
            /\ <<LAlle, sel_input'.department>> \in sel_selected']_vars

\* Option 0 for Obst has added the department's own path and its two
\* subcategories, and nothing of the other department.
C17_Witness ==
  /\ sel_input.sub = "zero" /\ sel_input.department = LObst
  /\ sel_selected \ sel_input.before
       = {PathObst, PathObstApfel, PathObstBio}
  /\ PathKaeseBio \in sel_categories \ sel_selected

----------------------------------------------------------------------------
(* Claims about the field parsers *)

\* C15 as claimed: the unit price degrades as a pair.  Whenever the unit
\* price comes out null (the text was absent or malformed) the unit comes
\* out empty, nothing is raised, and the main price is the one parsed before.
C15_UnitPriceDegradesAsPair ==
  output # NotCalled =>
     /\ ~output.raised
     /\ output.price = MainPrice(input.price)
     /\ output.unit_price.null => output.unit = <<>>

\* The keywords of the rules on the label, in the fixed order: serving,
\* energy (kcal, then kj), fat, carbohydrates, protein, salt, fiber.
RuleKeywords ==
  <<{"portion", "serving"}, {"energie", "energy"}, {"fett", "fat"},
    {"kohlenhydrate", "carbohydrate"}, {"protein", "eiweiß"},
    {"salz", "salt"}, {"ballaststoffe", "fiber"}>>

RuleSlots ==
  <<{"serving_size"}, {"energy_kcal", "energy_kj"},
    {"fat_saturated", "fat_total"},
    {"carbohydrates_sugar", "carbohydrates_total"}, {"protein"}, {"salt"},
    {"fiber"}>>

RuleMatches(r, nutrient) == RuleKeywords[r] \cap nutrient # {}

\* the first rule the label matches, 0 if none
FirstRule(nutrient) ==
  IF \E r \in DOMAIN RuleKeywords : RuleMatches(r, nutrient)
  THEN CHOOSE r \in DOMAIN RuleKeywords :
         /\ RuleMatches(r, nutrient)
         /\ \A q \in 1..(r - 1) : ~RuleMatches(q, nutrient)
  ELSE 0

SetSlots == {slot \in Slots : output[slot].set}

\* C16: the rules are applied in the fixed order and the first match wins.
\* A row sets at most one named slot, a slot of the first rule its label
\* matches; an energy row sets energy_kcal if the value holds kcal, else
\* energy_kj if it holds kj; a fat label with 'davon' or 'saturated' sets
\* fat_saturated with the parsed value and unit and never fat_total; a label
\* no rule matches sets no slot.
C16_FirstMatchingRuleWins ==
  output # NotCalled /\ input \in NutritionRows =>
    LET r == FirstRule(input.nutrient)
        kcal == \E i \in DOMAIN input.value :
                   input.value[i] = TokKcal
        kj == \E i \in DOMAIN input.value : input.value[i] = TokKJ
    IN /\ Cardinality(SetSlots) <= 1
       /\ r = 0 => SetSlots = {}
       /\ r # 0 => SetSlots \subseteq RuleSlots[r]
       /\ r \notin {0, 2} => SetSlots # {}
       /\ r = 2 => SetSlots = IF kcal THEN {"energy_kcal"}
                              ELSE IF kj THEN {"energy_kj"} ELSE {}
       /\ (r = 3 /\ {"davon", "saturated"} \cap input.nutrient # {})
            => /\ SetSlots = {"fat_saturated"}
               /\ output["fat_saturated"] =
                     _parse_numeric_value(input.value)
       /\ (r = 4 /\ {"zucker", "sugar"} \cap input.nutrient # {})
            => SetSlots = {"carbohydrates_sugar"}

\* The row ("davon ... fett...", "3,3 g") has set fat_saturated to (3.3, g).
C16_Witness ==
  /\ output # NotCalled
  /\ input \in NutritionRows
  /\ input.nutrient = {"davon", "fett"}
  /\ input.value = <<TokNumber, TokGram>>
  /\ output["fat_saturated"].set
  /\ output["fat_saturated"].value = [null |-> FALSE, lit |-> <<"3", ".", "3">>]
  /\ output["fat_saturated"].unit = [null |-> FALSE, lit |-> TokGram]
  /\ ~output["fat_total"].set

----------------------------------------------------------------------------
(* Claims about the taxonomy walker *)

\* C1: in one walker run no URL is downloaded more than once: download_page
\* is called at most once for each absolute URL, however many sidebar links
\* resolve to it.
C1_NoUrlDownloadedTwice ==
  \A i, j \in 1..Len(calls) : calls[i].url = calls[j].url => i = j

\* A link to a URL that was downloaded before has been met and not followed.
C1_Witness ==
  \E u \in skipped : \E i \in 1..Len(calls) : calls[i].url = u

C9_WalkTerminates ==
  <>(wpc = "done" /\ wstack = <<>> /\ C1_NoUrlDownloadedTwice)

\* The walk has returned after meeting a link back to the start URL (a cycle
\* or a self link of the start page) and after downloading a second page.
C9_Witness ==
  /\ wpc = "done"
  /\ start_url \in skipped
  /\ Len(calls) >= 2

----------------------------------------------------------------------------
(* Claims about the fetch operation and the product crawl *)

ProductCalls(url) ==
  {i \in 1..Len(calls) : calls[i].kind = "product" /\ calls[i].url = url}

\* C3 as claimed: in one session every product URL is fetched at most once.
C3_EachProductUrlFetchedOnce ==
  \A i \in 1..Len(calls) :
     calls[i].kind = "product" => Cardinality(ProductCalls(calls[i].url)) <= 1

\* C3 as amended: a product URL is not fetched again once its product is in
\* products_cache, in the same or a later category; only a URL whose fetch
\* or parse failed is fetched again.
C3_CachedUrlNotFetchedAgain ==
  [][calls' # calls =>
       ~(/\ calls'[Len(calls')].kind = "product"
         /\ calls'[Len(calls')].url \in DOMAIN products_cache)]_vars

\* A URL met again after its product was cached: the product was reused and
\* the URL has been fetched just once.
C3_Witness ==
  \E i \in 1..Len(proc) :
     /\ proc[i].how = "cached"
     /\ Cardinality(ProductCalls(proc[i].url)) = 1

Obtained(e) == e.how \in {"cached", "parsed"}

ObtainedUrls(entries) ==
  LET g == SelectSeq(entries, Obtained) IN [i \in DOMAIN g |-> g[i].url]

ProcOf(k) == SelectSeq(proc, LAMBDA e : e.cat = k)

\* C4: the categories are processed in the order of the selection list, the
\* product URLs of each in the order of its listing, and the accumulated
\* products (and what save_products is given) are in exactly that order.
C4_SelectionThenListingOrder ==
  /\ \A k \in 1..Len(listings) : listings[k].category = selected_categories[k]
  /\ \A i, j \in 1..Len(proc) :
        i < j => \/ proc[i].cat < proc[j].cat
                 \/ proc[i].cat = proc[j].cat /\ proc[i].pos < proc[j].pos
  /\ \A i \in 1..Len(proc) :
        proc[i].url = IF proc[i].cat <= Len(listings)
                      THEN listings[proc[i].cat].urls[proc[i].pos]
                      ELSE product_urls[proc[i].pos]
  /\ Urls(all_products) \o Urls(products) = ObtainedUrls(proc)
  /\ saved.called => saved.products = all_products

\* Two categories have contributed products and the result, two different
\* products among them, has been handed to save_products.
C4_Witness ==
  /\ saved.called
  /\ Len(returned) = 2 /\ returned[1] # <<>> /\ returned[2] # <<>>
  /\ \E i, j \in 1..Len(saved.products) :
        i < j /\ saved.products[i].url # saved.products[j].url

\* C5: scrape_category returns exactly the products obtained for the URLs of
\* the listing (parsed after a successful fetch, or taken from the cache), in
\* listing order; every URL of the listing is processed, also after a URL
\* whose fetch failed.
C5_ReturnsObtainedInListingOrder ==
  \A k \in 1..Len(returned) :
     /\ Urls(returned[k]) = ObtainedUrls(ProcOf(k))
     /\ Len(ProcOf(k)) = Len(listings[k].urls)
     /\ \A i \in 1..Len(ProcOf(k)) :
           /\ ProcOf(k)[i].pos = i
           /\ ProcOf(k)[i].url = listings[k].urls[i]

\* A finished category in which a fetch failed and a later URL of the same
\* listing yielded a product.
C5_Witness ==
  \E k \in 1..Len(returned) :
     \E i, j \in 1..Len(ProcOf(k)) :
        /\ i < j
        /\ ProcOf(k)[i].how = "failed"
        /\ ProcOf(k)[j].how = "parsed"
        /\ Urls(returned[k]) = <<ProcOf(k)[j].url>>

\* C6 as claimed: when the crawl is interrupted after products have been
\* accumulated, they have been handed to save_products when the process exits.
C6_InterruptFlushesProducts ==
  (ppc = "interrupted" /\ all_products # <<>>) =>
     (saved.called /\ saved.products = all_products)

\* C7: with the selection file missing the construction fails, no category is
\* selected or started, and no download_page call is made.
C7_NoNetworkWithoutSelectionFile ==
  ~prefs_file.exists =>
     /\ calls = <<>>
     /\ selected_categories = <<>>
     /\ ppc \in {"start", "config_error", "interrupted"}

\* The run has ended in the configuration error.
C7_Witness == ~prefs_file.exists /\ ppc = "config_error" /\ calls = <<>>

ListingCalls == {i \in 1..Len(calls) : calls[i].kind = "listing"}

ProjectedObstUrl == Url(base_url, <<SegOB, SegAP, <<"o", "bst">>, EmptySeg>>)

ProjectedKaeseUrl ==
  Url(base_url, <<SegOB, SegAP, <<"k", "%C3%A4", "se">>, EmptySeg>>)

C19_VisitedBeforeDownloadAndRecursion ==
  /\ [][/\ visited_urls \subseteq visited_urls'
        /\ calls' # calls =>
             /\ calls'[Len(calls')].url \in visited_urls
             /\ \A i \in 1..Len(calls) :
                   calls[i].url # calls'[Len(calls')].url
             /\ lastCall'.none => lastCall'.url \in visited_urls'
        /\ Len(wstack') > Len(wstack) /\ wstack # <<>> =>
             \A i \in 1..Len(wstack) : wstack[i].url \in visited_urls]_vars
  /\ [](\A i \in 1..Len(calls) : calls[i].url \in visited_urls)

\* The download of a page other than the start page has failed and a later
\* link to the same URL was not followed.
C19_Witness ==
  /\ lastCall.made /\ lastCall.none
  /\ lastCall.url # start_url
  /\ lastCall.url \in skipped
  /\ lastCall.url \in visited_urls

\* base_url + '/online-bestellen/alle-produkte/' is a prefix of the URL
UnderTaxonomy(url) ==
  /\ url.host = base_url
  /\ Len(url.path) >= 3
  /\ url.path[1] = SegOB /\ url.path[2] = SegAP

\* C12: every URL the walker downloads, other than the start URL, lies under
\* the taxonomy prefix of the shop site, whatever the sidebar links are,
\* absolute links to other hosts included.
C12_WalkerStaysInTaxonomy ==
  \A i \in 1..Len(calls) :
     (calls[i].kind = "category" /\ calls[i].url # start_url)
        => UnderTaxonomy(calls[i].url)

\* C13: when the fetch of a category's listing page fails, the category
\* contributes no products and the loop goes on with the next category;
\* product requests are only ever made for the category the loop is at,
\* never for one that is finished, so none is made for the failed one; and
\* the run ends through save_products with everything accumulated.
C13_FailedListingSkipsCategory ==
  /\ [][(/\ calls' # calls
          /\ calls'[Len(calls')].kind = "listing"
          /\ lastCall'.none)
        => /\ returned' = Append(returned, <<>>)
           /\ all_products' = all_products
           /\ catIdx' = catIdx + 1
           /\ ppc' = "loop"]_vars
  /\ [][(calls' # calls /\ calls'[Len(calls')].kind = "product")
        => /\ Len(returned) = catIdx - 1
           /\ calls'[Len(calls')].for = categories[catIdx]
           /\ \A k \in 1..Len(listings) :
                 listings[k].category # categories[catIdx]]_vars
  /\ [](ppc = "done" => (saved.called /\ saved.products = all_products))

\* The listing of the first of two categories has just failed to download:
\* nothing was returned for it and the loop is at the second category.
C13_Witness ==
  /\ lastCall.made /\ lastCall.none
  /\ calls[Len(calls)].kind = "listing"
  /\ calls[Len(calls)].for = categories[1]
  /\ ppc = "loop" /\ catIdx = 2 /\ Len(categories) = 2
  /\ returned = <<<<>>>>

\* C14: a product page without the name element yields no Product: the
\* parser returns None without raising, the iteration adds nothing to the
\* result list or to products_cache, and the loop goes on with the next URL
\* of the listing.  The cache and the results only ever hold URLs whose page
\* was parsed.
C14_UntitledPageYieldsNothing ==
  /\ [][(/\ ppc = "product_page" /\ proc' # proc
          /\ proc'[Len(proc')].how = "unparsed")
        => /\ products' = products
           /\ products_cache' = products_cache
           /\ all_products' = all_products
           /\ urlIdx' = urlIdx + 1
           /\ ppc' = "products"]_vars
  /\ [](\A u \in DOMAIN products_cache :
          \E i \in 1..Len(proc) : proc[i].url = u /\ proc[i].how = "parsed")

\* A page without a name was met and a later URL of the same listing was
\* parsed; the untitled page's URL is in neither the cache nor the results.
C14_Witness ==
  \E i, j \in 1..Len(proc) :
     /\ i < j
     /\ proc[i].cat = proc[j].cat
     /\ proc[i].how = "unparsed" /\ proc[j].how = "parsed"
     /\ proc[i].url \notin DOMAIN products_cache
     /\ \A k \in 1..Len(products) : products[k].url # proc[i].url

\* the last piece of the path that is not empty
LastNonEmptySegment(path) ==
  LET full == {i \in DOMAIN path : path[i] # EmptySeg}
  IN IF full = {} THEN EmptySeg
     ELSE path[CHOOSE i \in full : \A j \in full : j <= i]

\* C18: the id of a Product is the final non-empty path segment of its URL,
\* also for a URL that ends with a slash; being a function of the URL alone
\* it is the same for the same URL wherever the product is met.
C18_IdIsLastNonEmptySegment ==
  /\ \A u \in DOMAIN products_cache :
        products_cache[u].id = LastNonEmptySegment(u.path)
  /\ \A i \in 1..Len(all_products) :
        all_products[i].id = LastNonEmptySegment(all_products[i].url.path)

\* C20 as claimed: every Product that scrape_category(c) returns has
\* category_path c, products reused from the cache included.
C20_ReturnedProductsCarryCategory ==
  \A k \in 1..Len(returned) :
     \A i \in 1..Len(returned[k]) :
        returned[k][i].category_path = listings[k].category

FirstParsed(url) ==
  CHOOSE j \in 1..Len(proc) :
    /\ proc[j].url = url /\ proc[j].how = "parsed"
    /\ \A h \in 1..(j - 1) : ~(proc[h].url = url /\ proc[h].how = "parsed")

\* C20 as amended: a Product that scrape_category(c) parsed itself has
\* category_path c; a Product reused from products_cache keeps the
\* category_path of the category under which its URL was first parsed,
\* which is another one when an earlier category listed the same URL.
C20_CachedProductsKeepFirstCategory ==
  \A k \in 1..Len(returned) :
     LET got == SelectSeq(ProcOf(k), Obtained) IN
     /\ Len(got) = Len(returned[k])
     /\ \A i \in 1..Len(got) :
           returned[k][i].category_path =
              IF got[i].how = "parsed" THEN listings[k].category
              ELSE categories[proc[FirstParsed(got[i].url)].cat]

\* The second category has returned a product that carries the path of the
\* first.
C20_Witness ==
  /\ Len(returned) = 2
  /\ \E i \in 1..Len(returned[2]) :
        /\ returned[2][i].category_path = listings[1].category
        /\ listings[1].category # listings[2].category

----------------------------------------------------------------------------
(* Claims about the pauses between requests *)

SleepBetween(i) == \E k \in 1..Len(sleeps) : sleeps[k] = i - 1

----------------------------------------------------------------------------
(* Claims about the depth-limited site crawler *)

\* The URLs a chain of at most k links of site_links leads to from url.
\* Every link in site_links passed is_valid_url, and every page the crawl
\* got had all its anchors read, so a URL that the whole link graph puts
\* within k links of the start and that was not visited has a first
\* unvisited URL on its chain, which site_links puts within k links too.
RECURSIVE WithinLinks(_, _)
WithinLinks(url, k) ==
  IF k < 0 THEN {}
  ELSE IF k = 0 THEN {url}
  ELSE LET near == WithinLinks(url, k - 1)
       IN near \cup {l[2] : l \in {m \in site_links : m[1] \in near}}

\* every visited URL is at most d links away from the start URL
SiteVisitedWithinDepth ==
  site_visited_urls \subseteq WithinLinks(site_call.url, site_call.depth)

\* C21: when crawl(start, depth=d) has returned and no request raised, every
\* valid URL that a chain of at most d valid links leads to from the start
\* URL has been visited, in whatever order the links stand on the pages,
\* and every visited URL is at most d links away from the start URL.
C21_CrawlVisitsAllWithinDepth ==
  (site_pc = "done" /\ ~site_errors) =>
     /\ \A u \in WithinLinks(site_call.url, site_call.depth) :
           is_valid_url(u) => u \in site_visited_urls
     /\ SiteVisitedWithinDepth

====
